---- MODULE Spec2Model ----
(***************************************************************************)
(* A model of colab_utils.py (Sunwood-ai-labs/GoogleColab-cc-demo-001):    *)
(* the environment detector is_colab, the setup reporter                   *)
(* setup_colab_environment, the downloader download_from_url, the          *)
(* byte-size formatter format_file_size, and the two reporters             *)
(* get_gpu_info and get_memory_info.                                       *)
(*                                                                         *)
(* Python strings are sequences of one-character strings, so that split,   *)
(* strip, startswith and int() are computed on the characters.  Numbers    *)
(* handed to format_file_size are fixed-point numerals in radix Kilo, so   *)
(* that the division by 1024 of the scaling loop is computed exactly at    *)
(* any magnitude.  Every function has a specification of its own           *)
(* (SpecFmt, SpecDl, SpecEnv, SpecSetup, SpecGpu, SpecMem) over the shared *)
(* variables; SpecDl2 runs two downloads at once, interleaved at the       *)
(* system calls.                                                           *)
(***************************************************************************)
EXTENDS Integers, Sequences, FiniteSets, TLC

VARIABLES
    fmt_in,     \* format_file_size: the argument size_bytes
    fmt_out,    \* format_file_size: the outcome of the call (NoCall before it)
    gpu_in,     \* get_gpu_info: what subprocess.run does when it is called
    gpu_out,    \* get_gpu_info: the record returned (NoCall before the call)
    mem_in,     \* get_memory_info: sys.platform and the state of /proc/meminfo
    mem_out,    \* get_memory_info: the record returned (NoCall before the call)
    env_in,     \* is_colab: what importing google.colab does, and os.environ
    env_out,    \* is_colab: the outcome of the call (NoCall before it)
    setup_in,   \* setup_colab_environment: its arguments and what the imports do
    setup_out,  \* setup_colab_environment: the outcome of the call and what it printed
    dl,         \* download_from_url: per thread, the call it runs and where it is
    fs,         \* the file system: directories, files and their content
    fs0         \* the file system the downloads started in (never changes)

vars == <<fmt_in, fmt_out, gpu_in, gpu_out, mem_in, mem_out, env_in, env_out, setup_in, setup_out, dl, fs, fs0>>

\* The outcome of a call that has not been made.
NoCall == [exc |-> "NoCall"]

\* The threads that may run download_from_url.
Threads == {"t1", "t2"}

\* An exception: its class, the fixed part of its message, the URL or path the
\* message or the filename attribute names (<<>>: none), the HTTP status code
\* (0: none) and the reason or the str() of the exception it was made from.
Exc(cls, text, arg, code, cause) ==
    [cls |-> cls, text |-> text, arg |-> arg, code |-> code, cause |-> cause]

NoExc == Exc("None", "", <<>>, 0, "None")

\* A pathlib path: its root ("", "/" or "//") and its components.
Path(root, parts) == [root |-> root, parts |-> parts]

\* A thread that has not called download_from_url.
NoDownload ==
    [pc |-> "idle", url |-> NoCall, destination |-> NoCall, verbose |-> FALSE,
     destination_path |-> Path(<<>>, <<>>), target |-> <<>>, printed |-> <<>>,
     events |-> <<>>, fault |-> NoExc, origin |-> "None", exc |-> NoExc,
     fetches |-> 0, resp |-> 0, written |-> 0, ret |-> NoCall,
     mk |-> Path(<<>>, <<>>), mk_retry |-> FALSE]

NoDownloads == [t \in Threads |-> NoDownload]

\* The file system with the root directory alone.
FsEmpty == [dirs |-> {<<>>}, files |-> <<>>, readonly |-> {}]

(***************************************************************************)
(* Strings                                                                 *)
(***************************************************************************)

\* str.startswith(prefix)
StartsWith(s, p) == Len(s) >= Len(p) /\ SubSeq(s, 1, Len(p)) = p

\* str.isspace() of one character
IsSpace(c) == c \in {" ", "\t", "\n", "\r"}

RECURSIVE LStrip(_)
\* str.lstrip()
LStrip(s) == IF s = <<>> \/ ~IsSpace(s[1]) THEN s ELSE LStrip(Tail(s))

RECURSIVE RStrip(_)
\* str.rstrip()
RStrip(s) ==
    IF s = <<>> \/ ~IsSpace(s[Len(s)]) THEN s ELSE RStrip(SubSeq(s, 1, Len(s) - 1))

\* str.strip()
Strip(s) == RStrip(LStrip(s))

RECURSIVE RStripChar(_, _)
\* str.rstrip(c) for a single character c
RStripChar(s, c) ==
    IF s = <<>> \/ s[Len(s)] # c THEN s ELSE RStripChar(SubSeq(s, 1, Len(s) - 1), c)

RECURSIVE SplitOn(_, _)
\* str.split(c) for a single character c: the pieces between the occurrences of c
SplitOn(s, c) ==
    IF \A i \in 1..Len(s) : s[i] # c THEN <<s>>
    ELSE LET i == CHOOSE k \in 1..Len(s) : s[k] = c /\ \A j \in 1..(k - 1) : s[j] # c
         IN  <<SubSeq(s, 1, i - 1)>> \o SplitOn(SubSeq(s, i + 1, Len(s)), c)

RECURSIVE SplitWs(_)
\* str.split() without a separator: the maximal runs of non-space characters
SplitWs(s) ==
    LET t == LStrip(s) IN
    IF t = <<>> THEN <<>>
    ELSE IF \A i \in 1..Len(t) : ~IsSpace(t[i]) THEN <<t>>
    ELSE LET i == CHOOSE k \in 1..Len(t) : IsSpace(t[k]) /\ \A j \in 1..(k - 1) : ~IsSpace(t[j])
         IN  <<SubSeq(t, 1, i - 1)>> \o SplitWs(SubSeq(t, i + 1, Len(t)))

RECURSIVE Join(_, _)
\* sep.join(parts)
Join(parts, sep) ==
    IF parts = <<>> THEN <<>>
    ELSE IF Len(parts) = 1 THEN parts[1]
    ELSE parts[1] \o sep \o Join(Tail(parts), sep)

\* The decimal digit characters, '0' first.
DigitChars == <<"0", "1", "2", "3", "4", "5", "6", "7", "8", "9">>

RECURSIVE StrOfNat(_)
\* str(n) of a non-negative integer, as f"{n}" renders it
StrOfNat(n) ==
    IF n < 10 THEN <<DigitChars[n + 1]>>
    ELSE StrOfNat(n \div 10) \o <<DigitChars[(n % 10) + 1]>>

IsDigit(c) == \E d \in 1..10 : DigitChars[d] = c

DigitVal(c) == (CHOOSE d \in 1..10 : DigitChars[d] = c) - 1

RECURSIVE NatOfDigits(_)
\* The value of a string of decimal digits
NatOfDigits(s) ==
    IF s = <<>> THEN 0 ELSE NatOfDigits(SubSeq(s, 1, Len(s) - 1)) * 10 + DigitVal(s[Len(s)])

AllDigits(s) == \A i \in 1..Len(s) : IsDigit(s[i])

\* A leading sign split off: [neg, body]
Unsigned(s) ==
    IF s # <<>> /\ s[1] \in {"+", "-"} THEN [neg |-> s[1] = "-", body |-> Tail(s)]
    ELSE [neg |-> FALSE, body |-> s]

\* int(s) of a string: surrounding whitespace dropped, an optional sign, then
\* decimal digits only; anything else is a ValueError.
PyIntOfStr(s) ==
    LET u == Unsigned(Strip(s)) IN
    IF u.body # <<>> /\ AllDigits(u.body)
    THEN [exc |-> "None", val |-> IF u.neg THEN 0 - NatOfDigits(u.body) ELSE NatOfDigits(u.body)]
    ELSE [exc |-> "ValueError", val |-> 0]

\* int(float(s)) of a string: float() accepts an optional sign and digits with at
\* most one point (and nan and inf), int() then truncates toward zero; int(nan)
\* is a ValueError and int(inf) an OverflowError.
PyIntOfFloatStr(s) ==
    LET u == Unsigned(Strip(s))
        pieces == SplitOn(u.body, ".")
        whole == pieces[1]
        frac == IF Len(pieces) = 2 THEN pieces[2] ELSE <<>>
    IN  IF u.body = <<"n", "a", "n">> THEN [exc |-> "ValueError", val |-> 0]
        ELSE IF u.body = <<"i", "n", "f">> THEN [exc |-> "OverflowError", val |-> 0]
        ELSE IF /\ Len(pieces) <= 2
                /\ AllDigits(whole) /\ AllDigits(frac)
                /\ whole \o frac # <<>>
        THEN [exc |-> "None",
              val |-> IF u.neg THEN 0 - NatOfDigits(whole) ELSE NatOfDigits(whole)]
        ELSE [exc |-> "ValueError", val |-> 0]

(***************************************************************************)
(* Numbers: the values format_file_size is called with                     *)
(***************************************************************************)

\* The divisor of the scaling loop and the radix of the numerals.
Kilo == 1024

\* Significand width of a Python float (IEEE-754 binary64).
MantissaBits == 53

\* A value: its Python type, its class (finite, nan, inf, or "huge": an int of
\* magnitude beyond the float range), its sign, and for a finite one the integer
\* digits ip (most significant first, no leading zero) and the fraction digits fp.
Value(type, cls, neg, ip, fp) ==
    [type |-> type, cls |-> cls, neg |-> neg, ip |-> ip, fp |-> fp]

RECURSIVE Pow2(_)
Pow2(n) == IF n = 0 THEN 1 ELSE 2 * Pow2(n - 1)

\* int.bit_length() of one digit 1..Kilo-1
BitLen(d) == CHOOSE b \in 1..10 : Pow2(b - 1) <= d /\ d < Pow2(b)

AllZero(s) == \A i \in 1..Len(s) : s[i] = 0

Zeros(n) == [i \in 1..n |-> 0]

RECURSIVE AddAt(_, _, _)
\* ip + amt * Kilo^(Len(ip) - idx): add amt to digit idx, carrying to the left
AddAt(ip, idx, amt) ==
    IF idx = 0 THEN <<amt>> \o ip
    ELSE LET x == ip[idx] + amt IN
         IF x < Kilo THEN [ip EXCEPT ![idx] = x]
         ELSE AddAt([ip EXCEPT ![idx] = x - Kilo], idx - 1, 1)

\* float(n) of a non-negative int n < 2^1024 with digits ip: n rounded to
\* MantissaBits significant bits, ties to even.
RoundToDouble(ip) ==
    IF ip = <<>> THEN ip
    ELSE LET n    == Len(ip)
             bits == BitLen(ip[1]) + 10 * (n - 1)
         IN  IF bits <= MantissaBits THEN ip
             ELSE LET d    == bits - MantissaBits
                      q    == d \div 10
                      r    == d % 10
                      idx  == n - q
                      D    == ip[idx]
                      lo   == D % Pow2(r)
                      rest == SubSeq(ip, idx + 1, n)
                      above == IF r = 0
                               THEN rest[1] > 512 \/ (rest[1] = 512 /\ ~AllZero(Tail(rest)))
                               ELSE lo > Pow2(r - 1) \/ (lo = Pow2(r - 1) /\ ~AllZero(rest))
                      tie  == IF r = 0
                              THEN rest[1] = 512 /\ AllZero(Tail(rest))
                              ELSE lo = Pow2(r - 1) /\ AllZero(rest)
                      odd  == (D \div Pow2(r)) % 2 = 1
                      cut  == SubSeq(ip, 1, idx - 1) \o <<D - lo>> \o Zeros(q)
                  IN  IF above \/ (tie /\ odd) THEN AddAt(cut, idx, Pow2(r)) ELSE cut

\* isinstance(size_bytes, (int, float)); bool is a subclass of int
IsNumber(v) == v.type \in {"int", "float", "bool"}

\* size_bytes == 0
IsZero(v) == v.cls = "fin" /\ AllZero(v.ip) /\ AllZero(v.fp)

\* size_bytes < 0 (false of nan and of -0.0)
LtZero(v) == v.cls # "nan" /\ v.neg /\ ~IsZero(v)

\* float(size_bytes): the value, or the exception it raises
PyFloat(v) ==
    IF v.type = "float" THEN [exc |-> "None", val |-> v]
    ELSE IF v.cls = "huge" THEN [exc |-> "OverflowError", val |-> v]
    ELSE [exc |-> "None",
          val |-> Value("float", "fin", v.neg, RoundToDouble(v.ip), <<>>)]

\* size >= 1024, of a non-negative float
GeKilo(size) == size.cls = "inf" \/ (size.cls = "fin" /\ Len(size.ip) >= 2)

\* size / 1024, exact in binary floating point
DivKilo(size) ==
    IF size.cls # "fin" THEN size
    ELSE [size EXCEPT !.ip = SubSeq(size.ip, 1, Len(size.ip) - 1),
                      !.fp = <<size.ip[Len(size.ip)]>> \o size.fp]

RECURSIVE NatOf(_)
\* The integer with digits ip
NatOf(ip) == IF ip = <<>> THEN 0 ELSE NatOf(SubSeq(ip, 1, Len(ip) - 1)) * Kilo + ip[Len(ip)]

RECURSIVE MulFrac(_, _)
\* m * 0.fp = carry + 0.rem
MulFrac(fp, m) ==
    IF fp = <<>> THEN [carry |-> 0, rem |-> <<>>]
    ELSE LET t == MulFrac(Tail(fp), m)
             x == fp[1] * m + t.carry
         IN  [carry |-> x \div Kilo, rem |-> <<x % Kilo>> \o t.rem]

\* The unit suffixes as strings.
UnitB  == <<"B">>
UnitKB == <<"K", "B">>
UnitMB == <<"M", "B">>
UnitGB == <<"G", "B">>
UnitTB == <<"T", "B">>
UnitPB == <<"P", "B">>

\* units = ['B', 'KB', 'MB', 'GB', 'TB', 'PB']
units == <<UnitB, UnitKB, UnitMB, UnitGB, UnitTB, UnitPB>>

\* f"{size:.2f}": the decimal expansion of size rounded to two places, ties to even
FormatF2(size) ==
    IF size.cls = "inf" THEN <<"i", "n", "f">>
    ELSE LET m     == MulFrac(size.fp, 100)
             above == m.rem # <<>> /\
                      (m.rem[1] > 512 \/ (m.rem[1] = 512 /\ ~AllZero(Tail(m.rem))))
             tie   == m.rem # <<>> /\ m.rem[1] = 512 /\ AllZero(Tail(m.rem))
             up    == above \/ (tie /\ m.carry % 2 = 1)
             cents == m.carry + (IF up THEN 1 ELSE 0)
             whole == NatOf(size.ip) + (IF cents = 100 THEN 1 ELSE 0)
             c     == cents % 100
         IN  StrOfNat(whole) \o <<".">> \o <<DigitChars[(c \div 10) + 1], DigitChars[(c % 10) + 1]>>

\* while size >= 1024 and unit_index < len(units) - 1
ScaleGuard(size, unit_index) == GeKilo(size) /\ unit_index < Len(units) - 1

RECURSIVE ScaleLoop(_, _)
\* The scaling loop: divide by 1024 and advance the unit while the guard holds.
ScaleLoop(size, unit_index) ==
    IF ScaleGuard(size, unit_index)
    THEN ScaleLoop(DivKilo(size), unit_index + 1)
    ELSE [size |-> size, unit_index |-> unit_index]

Returned(s) == [exc |-> "None", val |-> s]
Raised(e) == [exc |-> e, val |-> <<>>]

\* format_file_size(size_bytes): the string returned, or the exception raised
format_file_size(size_bytes) ==
    IF ~IsNumber(size_bytes) THEN Raised("TypeError")
    ELSE IF LtZero(size_bytes) THEN Raised("ValueError")
    ELSE IF IsZero(size_bytes) THEN Returned(<<"0", " ", "B">>)
    ELSE LET f == PyFloat(size_bytes) IN
         IF f.exc # "None" THEN Raised(f.exc)
         ELSE LET s == ScaleLoop(f.val, 0) IN
              IF s.unit_index = 0
              THEN \* int(size): nan has no integer value
                   IF s.size.cls = "nan" THEN Raised("ValueError")
                   ELSE Returned(StrOfNat(NatOf(s.size.ip)) \o <<" ">> \o UnitB)
              ELSE Returned(FormatF2(s.size) \o <<" ">> \o units[s.unit_index + 1])

(***************************************************************************)
(* format_file_size: inputs and the call                                   *)
(***************************************************************************)

\* Longest integer numeral drawn, in radix-Kilo digits.
MaxDigits == 7

\* Longest numeral drawn over the whole of DigitSet.
ShortDigits == 3

\* Digits the inputs are drawn from: 128 and 384 give ties at two decimals and,
\* as the last digit of a long numeral, ties at the 53rd bit.
DigitSet == {0, 1, 128, 384, 512, 1023}

\* Digits of the numerals longer than ShortDigits.
LongDigitSet == DigitSet \ {512}

RECURSIVE Numerals(_, _)
\* The digit strings over S of length at most n without a leading zero
Numerals(n, S) ==
    IF n = 0 THEN {<<>>}
    ELSE LET shorter == Numerals(n - 1, S) IN
         shorter \cup {s \o <<d>> : s \in {t \in shorter : Len(t) = n - 1},
                                    d \in IF n = 1 THEN S \ {0} ELSE S}

\* The arguments drawn, with integer numerals of at most n digits.
FmtInputs(n) ==
    \* int
    {Value("int", "fin", neg, ip, <<>>) : neg \in BOOLEAN, ip \in Numerals(ShortDigits, DigitSet)}
    \cup {Value("int", "fin", FALSE, ip, <<>>) : ip \in Numerals(n, LongDigitSet)}
    \cup {Value("int", "huge", neg, <<>>, <<>>) : neg \in BOOLEAN}
    \* bool
    \cup {Value("bool", "fin", FALSE, ip, <<>>) : ip \in {<<>>, <<1>>}}
    \* float
    \cup {Value("float", "fin", neg, ip, fp) :
            neg \in BOOLEAN, ip \in Numerals(ShortDigits, DigitSet),
            fp \in {<<>>} \cup {<<d>> : d \in DigitSet \ {0}}}
    \cup {Value("float", cls, neg, <<>>, <<>>) : cls \in {"nan", "inf"}, neg \in BOOLEAN}
    \* not a number
    \cup {Value(t, "fin", FALSE, <<>>, <<>>) : t \in {"str", "NoneType", "list"}}

InitFmt ==
    /\ fmt_in \in FmtInputs(MaxDigits) /\ fmt_out = NoCall
    /\ gpu_in = NoCall /\ gpu_out = NoCall
    /\ mem_in = NoCall /\ mem_out = NoCall
    /\ env_in = NoCall /\ env_out = NoCall
    /\ setup_in = NoCall /\ setup_out = NoCall
    /\ dl = NoDownloads /\ fs = FsEmpty /\ fs0 = FsEmpty

\* One call format_file_size(fmt_in).
FormatFileSize ==
    /\ fmt_out = NoCall
    /\ fmt_out' = format_file_size(fmt_in)
    /\ UNCHANGED <<fmt_in, gpu_in, gpu_out, mem_in, mem_out, env_in, env_out, setup_in, setup_out, dl, fs, fs0>>

NextFmt == FormatFileSize

SpecFmt == InitFmt /\ [][NextFmt]_vars

(***************************************************************************)
(* get_gpu_info                                                            *)
(***************************************************************************)

\* d[k] = v on a dict
Put(d, k, v) == (k :> v) @@ d

\* k in d
Has(d, k) == k \in DOMAIN d

\* An error message: its fixed text and, for the generic ones, the exception
\* whose str() is appended.
Error(text, cause) == [text |-> text, cause |-> cause]

\* result = {'available': False, 'count': 0, 'devices': []}
GpuBase == [available |-> FALSE, count |-> 0, devices |-> <<>>]

\* The exception, if any, of building the device dict of one accepted line:
\* the fields are converted in the order index, total, used, free.
DeviceExc(parts) ==
    IF PyIntOfStr(parts[1]).exc # "None" THEN PyIntOfStr(parts[1]).exc
    ELSE IF PyIntOfFloatStr(parts[3]).exc # "None" THEN PyIntOfFloatStr(parts[3]).exc
    ELSE IF PyIntOfFloatStr(parts[4]).exc # "None" THEN PyIntOfFloatStr(parts[4]).exc
    ELSE PyIntOfFloatStr(parts[5]).exc

\* The device dict of one accepted line.
Device(parts) ==
    [index        |-> PyIntOfStr(parts[1]).val,
     name         |-> parts[2],
     memory_total |-> PyIntOfFloatStr(parts[3]).val,
     memory_used  |-> PyIntOfFloatStr(parts[4]).val,
     memory_free  |-> PyIntOfFloatStr(parts[5]).val]

\* A faulty variant of the acceptance test: five fields are enough.
AcceptedFive(parts) == Len(parts) >= 5

\* if len(parts) >= 6
Accepted(parts) == Len(parts) >= 6

\* A faulty variant of the driver-version rule: every accepted line overwrites it.
DriverVersionLast(result, parts) == Put(result, "driver_version", parts[6])

\* if 'driver_version' not in result: result['driver_version'] = parts[5]
DriverVersion(result, parts) ==
    IF Has(result, "driver_version") THEN result ELSE Put(result, "driver_version", parts[6])

\* One pass of the loop body over a line; st = [result, devices, exc].
ParseLine(st, line) ==
    IF Strip(line) = <<>> THEN st
    ELSE LET raw == SplitOn(line, ",")
             parts == [i \in 1..Len(raw) |-> Strip(raw[i])]
         IN  IF ~Accepted(parts) THEN st
             ELSE IF DeviceExc(parts) # "None" THEN [st EXCEPT !.exc = DeviceExc(parts)]
             ELSE [result  |-> DriverVersion(st.result, parts),
                   devices |-> Append(st.devices, Device(parts)),
                   exc     |-> "None"]

RECURSIVE ParseLines(_, _)
\* for line in lines: the loop stops at the first exception
ParseLines(st, lines) ==
    IF lines = <<>> \/ st.exc # "None" THEN st
    ELSE ParseLines(ParseLine(st, lines[1]), Tail(lines))

\* A faulty variant of the final assignment: the parsed devices are attached even when
\* a later line raised.
GpuAttachAlways(st) ==
    IF st.devices # <<>>
    THEN Put(Put(Put(st.result, "available", TRUE), "count", Len(st.devices)),
             "devices", st.devices)
    ELSE st.result

\* if devices: available, count and devices are set; reached only when no
\* line raised.
GpuAttach(st) ==
    IF st.exc = "None" /\ st.devices # <<>>
    THEN Put(Put(Put(st.result, "available", TRUE), "count", Len(st.devices)),
             "devices", st.devices)
    ELSE st.result

\* get_gpu_info() when subprocess.run behaves as run says: it raises run.raises,
\* or completes with run.returncode and run.stdout.
get_gpu_info(run) ==
    IF run.raises = "FileNotFoundError"
    THEN Put(GpuBase, "error",
             Error("nvidia-smi not found (no NVIDIA GPU or drivers not installed)", "None"))
    ELSE IF run.raises = "TimeoutExpired"
    THEN Put(GpuBase, "error", Error("nvidia-smi command timed out", "None"))
    ELSE IF run.raises # "None"
    THEN Put(GpuBase, "error", Error("Failed to get GPU info: ", run.raises))
    ELSE IF run.returncode # 0
    THEN Put(GpuBase, "error", Error("nvidia-smi command failed", "None"))
    ELSE LET lines == SplitOn(Strip(run.stdout), "\n")
             st == ParseLines([result |-> GpuBase, devices |-> <<>>, exc |-> "None"], lines)
         IN  IF st.exc # "None"
             THEN Put(GpuAttach(st), "error", Error("Failed to get GPU info: ", st.exc))
             ELSE GpuAttach(st)

\* The line of the documented example.
GpuLineT4 ==
    <<"0", ",", " ", "T", "e", "s", "l", "a", " ", "T", "4", ",", " ", "1", "5", "1",
      "0", "9", ",", " ", "5", "0", "0", ",", " ", "1", "4", "6", "0", "9", ",", " ",
      "5", "2", "5", ".", "8", "5", ".", "1", "2">>

\* A second device, reporting another driver version.
GpuLineA100 ==
    <<"1", ",", " ", "A", "1", "0", "0", ",", " ", "4", "0", "9", "6", "0", ",", " ",
      "0", ",", " ", "4", "0", "9", "6", "0", ",", " ", "5", "3", "5", ".", "1", "0",
      "4">>

\* Fractional memory values.
GpuLineFrac ==
    <<"0", ",", " ", "T", "4", ",", " ", "1", "5", "1", "0", "9", ".", "7", ",", " ",
      "5", "0", "0", ".", "2", ",", " ", "1", "4", "6", "0", "9", ",", " ", "5", "2",
      "5", ".", "8", "5">>

\* Memory fields the tool could not report.
GpuLineNA ==
    <<"1", ",", " ", "T", "4", ",", " ", "[", "N", "/", "A", "]", ",", " ", "[", "N",
      "/", "A", "]", ",", " ", "[", "N", "/", "A", "]", ",", " ", "5", "2", "5", ".",
      "8", "5">>

\* An index that is no integer.
GpuLineBadIndex ==
    <<"G", "P", "U", "0", ",", " ", "T", "4", ",", " ", "1", ",", " ", "2", ",", " ",
      "3", ",", " ", "4", "7", "0">>

\* Seven fields.
GpuLineSeven ==
    <<"2", ",", " ", "T", "4", ",", " ", "1", ",", " ", "2", ",", " ", "3", ",", " ",
      "4", "7", "0", ",", " ", "x">>

\* Fewer than six fields.
GpuLineShort ==
    <<"0", ",", " ", "T", "4", ",", " ", "1", "5", "1", "0", "9">>

\* A message instead of a table row.
GpuLineMsg ==
    <<"N", "o", " ", "d", "e", "v", "i", "c", "e", "s", " ", "w", "e", "r", "e", " ",
      "f", "o", "u", "n", "d">>

\* A line of spaces.
GpuLineBlank ==
    <<" ", " ">>

GpuLines ==
    {GpuLineT4, GpuLineA100, GpuLineFrac, GpuLineNA, GpuLineBadIndex, GpuLineSeven,
     GpuLineShort, GpuLineMsg, GpuLineBlank}

\* Most lines of a drawn output.
MaxGpuLines == 2

RECURSIVE Texts(_, _)
\* The texts of at most n lines of L, each ended by a newline
Texts(n, L) ==
    IF n = 0 THEN {<<>>}
    ELSE Texts(n - 1, L) \cup {l \o <<"\n">> \o t : l \in L, t \in Texts(n - 1, L)}

Run(raises, returncode, stdout) ==
    [raises |-> raises, returncode |-> returncode, stdout |-> stdout]

\* What subprocess.run may do: fail to find the tool, time out, fail otherwise
\* (PermissionError stands for every other exception), or complete; the
\* outputs have at most n lines.
GpuRuns(n) ==
    {Run(e, 0, <<>>) : e \in {"FileNotFoundError", "TimeoutExpired", "PermissionError"}}
    \cup {Run("None", rc, out) : rc \in {0, 1, 255}, out \in Texts(1, GpuLines)}
    \cup {Run("None", 0, out) : out \in Texts(n, GpuLines)}

InitGpu ==
    /\ gpu_in \in GpuRuns(MaxGpuLines) /\ gpu_out = NoCall
    /\ fmt_in = NoCall /\ fmt_out = NoCall
    /\ mem_in = NoCall /\ mem_out = NoCall
    /\ env_in = NoCall /\ env_out = NoCall
    /\ setup_in = NoCall /\ setup_out = NoCall
    /\ dl = NoDownloads /\ fs = FsEmpty /\ fs0 = FsEmpty

\* One call get_gpu_info().
GetGpuInfo ==
    /\ gpu_out = NoCall
    /\ gpu_out' = get_gpu_info(gpu_in)
    /\ UNCHANGED <<gpu_in, fmt_in, fmt_out, mem_in, mem_out, env_in, env_out, setup_in, setup_out, dl, fs, fs0>>

NextGpu == GetGpuInfo

SpecGpu == InitGpu /\ [][NextGpu]_vars

(***************************************************************************)
(* get_memory_info                                                         *)
(***************************************************************************)

KeyMemTotal ==
    <<"M", "e", "m", "T", "o", "t", "a", "l">>

KeyMemAvailable ==
    <<"M", "e", "m", "A", "v", "a", "i", "l", "a", "b", "l", "e">>

KeyMemFree ==
    <<"M", "e", "m", "F", "r", "e", "e">>

\* The prefix of sys.platform on the Linux family.
PrefixLinux ==
    <<"l", "i", "n", "u", "x">>

\* The literal "N/A".
NotAvailable ==
    <<"N", "/", "A">>

RECURSIVE DigitsOf(_)
\* The radix-Kilo digits of a non-negative integer
DigitsOf(n) == IF n = 0 THEN <<>> ELSE DigitsOf(n \div Kilo) \o <<n % Kilo>>

\* A Python int as an argument of format_file_size
IntValue(n) == Value("int", "fin", n < 0, DigitsOf(IF n < 0 THEN 0 - n ELSE n), <<>>)

\* The quotient num/den of percent_used, kept exact.
Ratio(num, den) == [num |-> num, den |-> den]

\* dict.get(key, default)
Get(d, key, default) == IF Has(d, key) THEN d[key] ELSE default

\* One pass of the loop over the lines of /proc/meminfo; st = [meminfo, exc].
MemLineStep(st, line) ==
    LET parts == SplitWs(line) IN
    IF Len(parts) >= 2
    THEN LET key == RStripChar(parts[1], ":")
             value == PyIntOfStr(parts[2])
         IN  IF value.exc # "None" THEN [st EXCEPT !.exc = value.exc]
             ELSE [st EXCEPT !.meminfo = Put(st.meminfo, key, value.val * 1024)]
    ELSE st

RECURSIVE MemLines(_, _)
\* for line in f: the loop stops at the first exception
MemLines(st, lines) ==
    IF lines = <<>> \/ st.exc # "None" THEN st
    ELSE MemLines(MemLineStep(st, lines[1]), Tail(lines))

\* A faulty variant of the fallback chain: MemFree is preferred to MemAvailable.
AvailableOfFreeFirst(meminfo) ==
    Get(meminfo, KeyMemFree, Get(meminfo, KeyMemAvailable, 0))

\* meminfo.get('MemAvailable', meminfo.get('MemFree', 0))
AvailableOf(meminfo) == Get(meminfo, KeyMemAvailable, Get(meminfo, KeyMemFree, 0))

\* The three format_file_size assignments, each of which may raise: the dict
\* as far as it was filled, and the exception if any.
MemFormatted(r, total, available, used) ==
    LET ft == format_file_size(IntValue(total))
        fa == format_file_size(IntValue(available))
        fu == format_file_size(IntValue(used))
        r1 == Put(r, "total_formatted", ft.val)
        r2 == Put(r1, "available_formatted", fa.val)
        r3 == Put(r2, "used_formatted", fu.val)
    IN  IF ft.exc # "None" THEN [result |-> r, exc |-> ft.exc]
        ELSE IF fa.exc # "None" THEN [result |-> r1, exc |-> fa.exc]
        ELSE IF fu.exc # "None" THEN [result |-> r2, exc |-> fu.exc]
        ELSE [result |-> r3, exc |-> "None"]

\* A faulty variant of the subtraction: the operands are swapped.
UsedOfSwapped(total, available) == available - total

\* used = total - available
UsedOf(total, available) == total - available

\* The Linux branch of the try block once the file is read.
MemComputed(r, meminfo) ==
    LET total == Get(meminfo, KeyMemTotal, 0)
        available == AvailableOf(meminfo)
        used == UsedOf(total, available)
        r1 == Put(r, "total_bytes", total)
        r2 == Put(r1, "available_bytes", available)
        r3 == Put(r2, "used_bytes", used)
        r4 == Put(r3, "percent_used",
                  IF total > 0 THEN Ratio(used * 100, total) ELSE Ratio(0, 1))
    IN  MemFormatted(r4, total, available, used)

\* The zero-valued fields every failure path assigns, over what the dict holds.
MemZeroed(r, err) ==
    Put(Put(Put(Put(Put(Put(Put(Put(r,
        "error", err),
        "total_bytes", 0),
        "available_bytes", 0),
        "used_bytes", 0),
        "percent_used", Ratio(0, 1)),
        "total_formatted", NotAvailable),
        "available_formatted", NotAvailable),
        "used_formatted", NotAvailable)

\* A faulty variant of the generic handler: only the error is recorded, what the try
\* block assigned before raising is kept.
MemGenericKeepsPartial(r, exc) == Put(r, "error", Error("Failed to get memory info: ", exc))

\* except Exception as e
MemGeneric(r, exc) == MemZeroed(r, Error("Failed to get memory info: ", exc))

\* The try block: the dict as far as it was filled, and the exception if any.
MemTry(platform, file) ==
    LET r == [platform |-> platform] IN
    IF StartsWith(platform, PrefixLinux)
    THEN IF file.state = "missing" THEN [result |-> r, exc |-> "FileNotFoundError"]
         ELSE IF file.state = "denied" THEN [result |-> r, exc |-> "PermissionError"]
         ELSE LET Read(st) ==
                      IF st.exc # "None" THEN [result |-> r, exc |-> st.exc]
                      ELSE MemComputed(r, st.meminfo)
              IN  Read(MemLines([meminfo |-> <<>>, exc |-> "None"], file.lines))
    ELSE [result |-> MemZeroed(r, Error("Memory info not fully supported on ", platform)),
          exc |-> "None"]

\* get_memory_info() on a system with this sys.platform and this /proc/meminfo
get_memory_info(platform, file) ==
    LET Handled(t) ==
            IF t.exc = "None" THEN t.result
            ELSE IF t.exc = "FileNotFoundError"
            THEN MemZeroed(t.result, Error("/proc/meminfo not found", "None"))
            ELSE MemGeneric(t.result, t.exc)
    IN  Handled(MemTry(platform, file))

PlatformLinux ==
    <<"l", "i", "n", "u", "x">>

PlatformLinux2 ==
    <<"l", "i", "n", "u", "x", "2">>

PlatformDarwin ==
    <<"d", "a", "r", "w", "i", "n">>

PlatformWin32 ==
    <<"w", "i", "n", "3", "2">>

KeyHugePages ==
    <<"H", "u", "g", "e", "P", "a", "g", "e", "s", "_", "T", "o", "t", "a", "l">>

\* The kB values the entries are drawn from.
KBValues == {0, 1, 3, 2048}

\* "Key:   value kB": a line of the status file
MemEntry(key, text) == key \o <<":", " ", " ">> \o text \o <<" ", "k", "B", "\n">>

\* The lines of a key and a non-negative integer kB value (the last one has no
\* unit, as the counters of the file have none).
WellFormedMemLines ==
    {MemEntry(key, StrOfNat(v)) : key \in {KeyMemTotal, KeyMemAvailable, KeyMemFree},
                                  v \in KBValues}
    \cup {KeyHugePages \o <<":", " ", "0", "\n">>}

\* Lines that are not: a value that is no integer, a negative value, a key of
\* two words, an empty line.
IllFormedMemLines ==
    {MemEntry(KeyMemTotal, NotAvailable),
     MemEntry(KeyMemAvailable, <<"-", "1">>),
     <<"M", "e", "m", " ">> \o MemEntry(<<"T", "o", "t", "a", "l">>, <<"3">>),
     <<"\n">>}

\* Most lines of a drawn status file.
MaxMemLines == 3

RECURSIVE LineSeqs(_, _)
\* The sequences of at most n lines of L
LineSeqs(n, L) ==
    IF n = 0 THEN {<<>>}
    ELSE LineSeqs(n - 1, L) \cup {<<l>> \o t : l \in L, t \in LineSeqs(n - 1, L)}

MemFile(state, lines) == [state |-> state, lines |-> lines]

\* The systems get_memory_info runs on: the platform, and /proc/meminfo missing,
\* unreadable (PermissionError stands for every other failure of open) or
\* readable with at most n well-formed lines, or with two lines of any kind.
MemSystems(n) ==
    {[platform |-> PlatformLinux, file |-> MemFile("ok", ls)] :
        ls \in LineSeqs(n, WellFormedMemLines)}
    \cup {[platform |-> PlatformLinux, file |-> MemFile("ok", ls)] :
        ls \in LineSeqs(2, WellFormedMemLines \cup IllFormedMemLines)}
    \cup {[platform |-> pf, file |-> f] :
        pf \in {PlatformLinux, PlatformLinux2, PlatformDarwin, PlatformWin32},
        f \in {MemFile("missing", <<>>), MemFile("denied", <<>>),
               MemFile("ok", <<MemEntry(KeyMemTotal, <<"3">>), MemEntry(KeyMemFree, <<"1">>)>>)}}

InitMem ==
    /\ mem_in \in MemSystems(MaxMemLines) /\ mem_out = NoCall
    /\ fmt_in = NoCall /\ fmt_out = NoCall
    /\ gpu_in = NoCall /\ gpu_out = NoCall
    /\ env_in = NoCall /\ env_out = NoCall
    /\ setup_in = NoCall /\ setup_out = NoCall
    /\ dl = NoDownloads /\ fs = FsEmpty /\ fs0 = FsEmpty

\* One call get_memory_info().
GetMemoryInfo ==
    /\ mem_out = NoCall
    /\ mem_out' = get_memory_info(mem_in.platform, mem_in.file)
    /\ UNCHANGED <<mem_in, fmt_in, fmt_out, gpu_in, gpu_out, env_in, env_out, setup_in, setup_out, dl, fs, fs0>>

NextMem == GetMemoryInfo

SpecMem == InitMem /\ [][NextMem]_vars

(***************************************************************************)
(* is_colab                                                                *)
(***************************************************************************)

\* issubclass(e, ImportError): ModuleNotFoundError is one
IsImportError(e) == e \in {"ImportError", "ModuleNotFoundError"}

\* 'COLAB_GPU' in os.environ or 'COLAB_TPU_ADDR' in os.environ
ColabEnv(environ) == "COLAB_GPU" \in DOMAIN environ \/ "COLAB_TPU_ADDR" \in DOMAIN environ

\* is_colab() when "import google.colab" raises import_exc ("None": the import
\* succeeds) and os.environ is environ: True or False, or the exception that
\* the except clause does not catch.
is_colab(import_exc, environ) ==
    IF import_exc = "None" THEN Returned(TRUE)
    ELSE IF ~IsImportError(import_exc) THEN Raised(import_exc)
    ELSE IF ColabEnv(environ) THEN Returned(TRUE)
    ELSE Returned(FALSE)

\* The names os.environ is drawn over: the two the function looks up, a third
\* Colab variable and a lower-case spelling.
EnvNames == {"COLAB_GPU", "COLAB_TPU_ADDR", "COLAB_RELEASE_TAG", "colab_gpu"}

\* The values of a variable: the empty string among them.
EnvValues == {"", "0", "localhost"}

Environs == UNION {[D -> EnvValues] : D \in SUBSET EnvNames}

\* What "import google.colab" may do: succeed, find no module (or find
\* sys.modules['google.colab'] = None), fail with an ImportError of the package,
\* or fail with another exception raised while the package is executed.
ImportOutcomes == {"None", "ModuleNotFoundError", "ImportError", "AttributeError"}

InitEnv ==
    /\ env_in \in [import_exc : ImportOutcomes, environ : Environs]
    /\ env_out = NoCall
    /\ setup_in = NoCall /\ setup_out = NoCall
    /\ fmt_in = NoCall /\ fmt_out = NoCall
    /\ gpu_in = NoCall /\ gpu_out = NoCall
    /\ mem_in = NoCall /\ mem_out = NoCall
    /\ dl = NoDownloads /\ fs = FsEmpty /\ fs0 = FsEmpty

\* One call is_colab().
IsColab ==
    /\ env_out = NoCall
    /\ env_out' = is_colab(env_in.import_exc, env_in.environ)
    /\ UNCHANGED <<env_in, fmt_in, fmt_out, gpu_in, gpu_out, mem_in, mem_out, setup_in, setup_out, dl, fs, fs0>>

NextEnv == IsColab

SpecEnv == InitEnv /\ [][NextEnv]_vars

(***************************************************************************)
(* download_from_url                                                       *)
(***************************************************************************)

\* A Python argument: its type, its truth value and, for a str, its characters.
PyObj(type, truthy, chars) == [type |-> type, truthy |-> truthy, chars |-> chars]

\* A faulty variant of the validation: any text that starts with "http" is accepted.
ValidateUrlLoose(url) ==
    IF ~url.truthy \/ url.type # "str"
    THEN Exc("ValueError", "URL must be a non-empty string", <<>>, 0, "None")
    ELSE IF ~StartsWith(url.chars, <<"h", "t", "t", "p">>)
    THEN Exc("ValueError", "URL must start with http:// or https://", <<>>, 0, "None")
    ELSE NoExc

\* The validation of the URL: the ValueError it raises, NoExc when it passes.
ValidateUrl(url) ==
    IF ~url.truthy \/ url.type # "str"
    THEN Exc("ValueError", "URL must be a non-empty string", <<>>, 0, "None")
    ELSE IF ~(\/ StartsWith(url.chars, <<"h", "t", "t", "p", ":", "/", "/">>)
              \/ StartsWith(url.chars, <<"h", "t", "t", "p", "s", ":", "/", "/">>))
    THEN Exc("ValueError", "URL must start with http:// or https://", <<>>, 0, "None")
    ELSE NoExc

\* Path(s): the root is "//" for exactly two leading slashes; empty and "."
\* components are dropped.
ParsePath(s) ==
    Path(IF StartsWith(s, <<"/", "/">>) /\ ~StartsWith(s, <<"/", "/", "/">>) THEN <<"/", "/">>
         ELSE IF StartsWith(s, <<"/">>) THEN <<"/">>
         ELSE <<>>,
         SelectSeq(SplitOn(s, "/"), LAMBDA c : c # <<>> /\ c # <<".">>))

\* str(p)
StrOfPath(p) ==
    IF p.root = <<>> /\ p.parts = <<>> THEN <<".">> ELSE p.root \o Join(p.parts, <<"/">>)

\* p.parent
Parent(p) ==
    IF p.parts = <<>> THEN p ELSE Path(p.root, SubSeq(p.parts, 1, Len(p.parts) - 1))

\* Path.cwd(): the working directory of the process
Cwd == Path(<<"/">>, <<<<"w">>>>)

\* base / name
JoinPath(base, name) ==
    IF ParsePath(name).root # <<>> THEN ParsePath(name)
    ELSE Path(base.root, base.parts \o ParsePath(name).parts)

\* The file name taken from the URL: what follows its last "/", up to the
\* first "?" of that.
FileNameOf(url) ==
    LET segments == SplitOn(url.chars, "/")
    IN  SplitOn(segments[Len(segments)], "?")[1]

\* The destination path of a call.
DestinationPath(url, destination) ==
    IF destination.type = "NoneType"
    THEN LET filename == FileNameOf(url)
         IN  JoinPath(Cwd, IF filename = <<>> THEN <<"d", "o", "w", "n", "l", "o", "a", "d", "e", "d", "_", "f", "i", "l", "e">> ELSE filename)
    ELSE ParsePath(destination.chars)

\* The absolute components the operating system resolves p to.
Abs(p) == IF p.root = <<>> THEN Cwd.parts \o p.parts ELSE p.parts

\* The error of walking to the directory that holds a: its first component that
\* is not a directory is a file, or is missing.
LookupErr(f, a) ==
    LET missing == {k \in 0..(Len(a) - 1) : SubSeq(a, 1, k) \notin f.dirs} IN
    IF missing = {} THEN "None"
    ELSE LET k == CHOOSE m \in missing : \A n \in missing : m <= n
         IN  IF SubSeq(a, 1, k) \in DOMAIN f.files THEN "NotADirectoryError"
             ELSE "FileNotFoundError"

\* An OSError of the file system on path p.
FsExc(cls, p) == Exc(cls, "", StrOfPath(p), 0, cls)

\* os.mkdir(p): the file system after it and the exception it raises.
OsMkdir(f, p) ==
    LET a == Abs(p) IN
    IF LookupErr(f, a) # "None" THEN [fs |-> f, exc |-> FsExc(LookupErr(f, a), p)]
    ELSE IF a \in f.dirs \/ a \in DOMAIN f.files THEN [fs |-> f, exc |-> FsExc("FileExistsError", p)]
    ELSE IF SubSeq(a, 1, Len(a) - 1) \in f.readonly THEN [fs |-> f, exc |-> FsExc("PermissionError", p)]
    ELSE [fs |-> [f EXCEPT !.dirs = @ \cup {a}], exc |-> NoExc]

\* A faulty variant of the directory creation: nothing is created.
MkdirNothing(f, p) == [fs |-> f, exc |-> NoExc]

RECURSIVE MkdirParents(_, _)
\* p.mkdir(parents=True, exist_ok=True): a missing parent is created first and
\* the directory then made; another OSError is dropped when p is a directory.
MkdirParents(f, p) ==
    LET r == OsMkdir(f, p) IN
    IF r.exc = NoExc THEN r
    ELSE IF r.exc.cls = "FileNotFoundError"
    THEN IF Parent(p) = p THEN r
         ELSE LET q == MkdirParents(f, Parent(p)) IN
              IF q.exc # NoExc THEN q
              ELSE LET r2 == OsMkdir(q.fs, p) IN
                   IF r2.exc = NoExc THEN r2
                   ELSE IF r2.exc.cls # "FileNotFoundError" /\ Abs(p) \in r2.fs.dirs
                   THEN [r2 EXCEPT !.exc = NoExc]
                   ELSE r2
    ELSE IF Abs(p) \in f.dirs THEN [r EXCEPT !.exc = NoExc]
    ELSE r

\* open(p, 'wb'), the first thing urlretrieve does with its target once the
\* response has arrived: the file is created or truncated.
OpenWrite(f, p) ==
    LET a == Abs(p) IN
    IF LookupErr(f, a) # "None" THEN [fs |-> f, exc |-> FsExc(LookupErr(f, a), p)]
    ELSE IF a \in f.dirs THEN [fs |-> f, exc |-> FsExc("IsADirectoryError", p)]
    ELSE IF a \notin DOMAIN f.files /\ SubSeq(a, 1, Len(a) - 1) \in f.readonly
    THEN [fs |-> f, exc |-> FsExc("PermissionError", p)]
    ELSE [fs |-> [f EXCEPT !.files = Put(@, a, <<>>)], exc |-> NoExc]

\* The classes an "except URLError" clause catches.
UrlErrors == {"URLError", "HTTPError", "ContentTooShortError"}

\* The classes an "except IOError" clause catches: IOError is OSError.
OsErrors ==
    UrlErrors \cup {"OSError", "ConnectionResetError", "FileNotFoundError", "FileExistsError",
                    "NotADirectoryError", "IsADirectoryError", "PermissionError"}

\* The three except clauses around the fetch: the exception that leaves the
\* function when e is raised inside the try block.
Reraise(e, url, destination_path) ==
    IF e.cls = "HTTPError"
    THEN Exc("HTTPError", "HTTP Error {e.code}: {e.msg}", e.arg, e.code, e.cause)
    ELSE IF e.cls \in UrlErrors
    THEN Exc("URLError", "Failed to download from {url}: {e.reason}", url.chars, 0, e.cause)
    ELSE IF e.cls \in OsErrors
    THEN Exc("OSError", "Failed to save file to {destination_path}: {e}",
             StrOfPath(destination_path), 0, e.cause)
    ELSE e

\* What urlopen may raise before any byte is written, with where the failure
\* lies: the server answers with an error status, or the connection fails.
ConnectFaults ==
    {[origin |-> "http", exc |-> Exc("HTTPError", "", <<>>, 404, "Not Found")],
     [origin |-> "http", exc |-> Exc("HTTPError", "", <<>>, 503, "Service Unavailable")],
     [origin |-> "network", exc |-> Exc("URLError", "", <<>>, 0, "Name or service not known")]}

\* What urlretrieve may raise while it copies the response to the file: the
\* connection is reset, a chunk of the body is cut short, the body ends before
\* its announced length, or the disk is full.
TransferFaults ==
    {[origin |-> "network", exc |-> Exc("ConnectionResetError", "", <<>>, 0, "Connection reset by peer")],
     [origin |-> "network", exc |-> Exc("IncompleteRead", "", <<>>, 0, "IncompleteRead")],
     [origin |-> "network", exc |-> Exc("ContentTooShortError", "", <<>>, 0, "retrieval incomplete")],
     [origin |-> "filesystem", exc |-> Exc("OSError", "", <<>>, 0, "No space left on device")]}

\* The most blocks a response has.
MaxBlocks == 2

\* A printed line: its fixed text and the value formatted into it.
Line(text, arg) == [text |-> text, arg |-> arg]

RECURSIVE Thousands(_)
\* f"{n:,}"
Thousands(n) ==
    IF n < 1000 THEN StrOfNat(n)
    ELSE Thousands(n \div 1000) \o <<",">>
         \o SubSeq(StrOfNat(1000 + (n % 1000)), 2, 4)

\* A faulty variant of the failure: the exception is swallowed and the call
\* goes on as if the transfer had ended.
FailIgnored(c, fault) ==
    [c EXCEPT !.pc = "write", !.fault = fault.exc, !.origin = fault.origin,
              !.resp = c.written]

\* The call c leaves the try block by exception e, which the except clauses
\* see.
Fail(c, fault) ==
    [c EXCEPT !.pc = "raised", !.fault = fault.exc, !.origin = fault.origin,
              !.exc = Reraise(fault.exc, c.url, c.destination_path)]

\* Thread t, up to the resolved destination: the URL is validated and the
\* destination path determined.
Call(t) ==
    /\ dl[t].pc = "start"
    /\ dl' = [dl EXCEPT ![t] =
                IF ValidateUrl(@.url) # NoExc
                THEN [@ EXCEPT !.pc = "raised", !.exc = ValidateUrl(dl[t].url),
                               !.origin = "argument", !.events = Append(@, "validate")]
                ELSE [@ EXCEPT !.pc = "mkdir",
                               !.destination_path = DestinationPath(dl[t].url, dl[t].destination),
                               !.mk = Parent(DestinationPath(dl[t].url, dl[t].destination)),
                               !.events = @ \o <<"validate", "resolve">>]]
    /\ UNCHANGED <<fs, fmt_in, fmt_out, gpu_in, gpu_out, mem_in, mem_out, env_in, env_out, setup_in, setup_out, fs0>>

\* Thread t creates the parent directories, outside the try block, and prints
\* the two lines that precede the fetch.
Mkdir(t) ==
    /\ dl[t].pc = "mkdir"
    /\ LET m == MkdirParents(fs, Parent(dl[t].destination_path)) IN
       /\ fs' = m.fs
       /\ dl' = [dl EXCEPT ![t] =
                   IF m.exc # NoExc
                   THEN [@ EXCEPT !.pc = "raised", !.exc = m.exc, !.fault = m.exc,
                                  !.origin = "filesystem", !.events = Append(@, "mkdir")]
                   ELSE IF ~dl[t].verbose
                   THEN [@ EXCEPT !.pc = "fetch", !.events = Append(@, "mkdir")]
                   ELSE [@ EXCEPT !.pc = "fetch", !.events = @ \o <<"mkdir", "print_pre">>,
                                  !.printed = @ \o <<Line("Downloading from: ", dl[t].url.chars),
                                                     Line("Saving to: ", StrOfPath(dl[t].destination_path))>>]]
    /\ UNCHANGED <<fmt_in, fmt_out, gpu_in, gpu_out, mem_in, mem_out, env_in, env_out, setup_in, setup_out, fs0>>

\* A faulty variant of the exist_ok rule: an existing directory is an error.
MkdirToleratedNever(f, p, e) == FALSE

\* except OSError: if not exist_ok or not self.is_dir(): raise
MkdirTolerated(f, p, e) == e.cls # "FileNotFoundError" /\ Abs(p) \in f.dirs

\* Thread t makes one os.mkdir call of Path.mkdir(parents=True, exist_ok=True),
\* on the path mk it has reached: a missing parent sends it one level up, a
\* made or tolerated directory one level down (where a missing parent is an
\* error), and the parent of the destination ends the walk, with the two
\* lines that precede the fetch.  Other threads run between the calls.
MkdirStep(t) ==
    /\ dl[t].pc = "mkdir"
    /\ LET top == Parent(dl[t].destination_path)
           r == OsMkdir(fs, dl[t].mk)
           Raise(c) == [c EXCEPT !.pc = "raised", !.exc = r.exc, !.fault = r.exc,
                                 !.origin = "filesystem", !.events = Append(@, "mkdir")]
           Made(c) ==
               IF c.mk # top
               THEN [c EXCEPT !.mk = Path(top.root, SubSeq(top.parts, 1, Len(c.mk.parts) + 1)),
                              !.mk_retry = TRUE]
               ELSE IF ~c.verbose
               THEN [c EXCEPT !.pc = "fetch", !.events = Append(@, "mkdir")]
               ELSE [c EXCEPT !.pc = "fetch", !.events = @ \o <<"mkdir", "print_pre">>,
                              !.printed = @ \o <<Line("Downloading from: ", c.url.chars),
                                                 Line("Saving to: ", StrOfPath(c.destination_path))>>]
       IN  /\ fs' = r.fs
           /\ dl' = [dl EXCEPT ![t] =
                       IF r.exc = NoExc THEN Made(@)
                       ELSE IF r.exc.cls = "FileNotFoundError"
                       THEN IF dl[t].mk_retry \/ Parent(dl[t].mk) = dl[t].mk THEN Raise(@)
                            ELSE [@ EXCEPT !.mk = Parent(dl[t].mk)]
                       ELSE IF MkdirTolerated(fs, dl[t].mk, r.exc) THEN Made(@)
                       ELSE Raise(@)]
    /\ UNCHANGED <<fmt_in, fmt_out, gpu_in, gpu_out, mem_in, mem_out, env_in, env_out, setup_in, setup_out, fs0>>

\* Thread t enters urlretrieve(url, str(destination_path)): the request is
\* sent and, when the response has arrived, the target opened for writing.
FetchOpen(t) ==
    /\ dl[t].pc = "fetch"
    /\ LET c == [dl[t] EXCEPT !.fetches = @ + 1, !.events = Append(@, "fetch"),
                              !.target = StrOfPath(dl[t].destination_path)]
           o == OpenWrite(fs, ParsePath(c.target))
       IN  \/ \E fault \in ConnectFaults :
                /\ dl' = [dl EXCEPT ![t] = Fail(c, fault)]
                /\ fs' = fs
           \/ /\ o.exc # NoExc
              /\ dl' = [dl EXCEPT ![t] = Fail(c, [origin |-> "filesystem", exc |-> o.exc])]
              /\ fs' = fs
           \/ /\ o.exc = NoExc
              /\ \E n \in 0..MaxBlocks :
                    dl' = [dl EXCEPT ![t] = [c EXCEPT !.pc = "write", !.resp = n, !.written = 0]]
              /\ fs' = o.fs
    /\ UNCHANGED <<fmt_in, fmt_out, gpu_in, gpu_out, mem_in, mem_out, env_in, env_out, setup_in, setup_out, fs0>>

\* tfp.write(block) at the position pos of the writer's own file object: the
\* block replaces what is there, and a gap left by a truncation reads as zeros.
WriteAt(content, pos, block) ==
    IF pos <= Len(content) THEN [content EXCEPT ![pos] = block]
    ELSE content \o [i \in 1..(pos - 1 - Len(content)) |-> [by |-> "hole", block |-> 0]]
         \o <<block>>

\* Thread t, inside urlretrieve, copies one block of the response to the file.
FetchWrite(t) ==
    /\ dl[t].pc = "write"
    /\ dl[t].written < dl[t].resp
    /\ \/ \E fault \in TransferFaults :
            /\ dl' = [dl EXCEPT ![t] = Fail(@, fault)]
            /\ fs' = fs
       \/ /\ dl' = [dl EXCEPT ![t].written = @ + 1]
          /\ fs' = [fs EXCEPT !.files[Abs(ParsePath(dl[t].target))] =
                        WriteAt(@, dl[t].written + 1, [by |-> t, block |-> dl[t].written + 1])]
    /\ UNCHANGED <<fmt_in, fmt_out, gpu_in, gpu_out, mem_in, mem_out, env_in, env_out, setup_in, setup_out, fs0>>

\* Thread t is back from urlretrieve: the size is read and printed, and the
\* destination path returned.  A block of urlretrieve is 8192 bytes.
Finish(t) ==
    /\ dl[t].pc = "write"
    /\ dl[t].written = dl[t].resp
    /\ LET a == Abs(dl[t].destination_path) IN
       dl' = [dl EXCEPT ![t] =
                IF ~dl[t].verbose
                THEN [@ EXCEPT !.pc = "done", !.ret = dl[t].destination_path,
                               !.events = Append(@, "return")]
                ELSE IF a \notin DOMAIN fs.files
                THEN Fail(@, [origin |-> "filesystem",
                              exc |-> FsExc("FileNotFoundError", dl[t].destination_path)])
                ELSE [@ EXCEPT !.pc = "done", !.ret = dl[t].destination_path,
                               !.events = @ \o <<"print_post", "return">>,
                               !.printed = Append(@, Line("Download complete! File size: {:,} bytes",
                                                          Thousands(Len(fs.files[a]) * 8192)))]]
    /\ UNCHANGED <<fs, fmt_in, fmt_out, gpu_in, gpu_out, mem_in, mem_out, env_in, env_out, setup_in, setup_out, fs0>>

(***************************************************************************)
(* download_from_url: inputs and the specification                         *)
(***************************************************************************)

\* The URLs: a scheme, or what stands in its place, then a host, a path and a
\* query; the URL of the documentation; a URL after a blank; the empty text.
UrlTexts ==
    {scheme \o <<"h">> \o path \o query :
        scheme \in {<<"h", "t", "t", "p", ":", "/", "/">>, <<"h", "t", "t", "p", "s", ":", "/", "/">>, <<"f", "t", "p", ":", "/", "/">>, <<"H", "T", "T", "P", ":", "/", "/">>,
                    <<"h", "t", "t", "p", ":", "/">>, <<>>},
        path \in {<<>>, <<"/">>, <<"/", "f", ".", "c">>, <<"/", "d", "/", "f">>, <<"/", "d", "/">>},
        query \in {<<>>, <<"?">>, <<"?", "v", "=", "1">>, <<"?", "n", "=", "/", "x">>}}
    \cup {<<>>, <<" ", "h", "t", "t", "p", ":", "/", "/", "h", "/", "f">>,
          <<"h", "t", "t", "p", "s", ":", "/", "/", "e", "x", "a", "m", "p", "l", "e", ".", "c", "o", "m", "/", "f", "i", "l", "e", ".", "c", "s", "v", "?", "v", "e", "r", "s", "i", "o", "n", "=", "1", "&",
  "t", "o", "k", "e", "n", "=", "a", "b", "c">>}

\* The values passed as url: the texts, and values that are not a str.
Urls ==
    {PyObj("str", u # <<>>, u) : u \in UrlTexts}
    \cup {PyObj("NoneType", FALSE, <<>>), PyObj("int", FALSE, <<>>), PyObj("int", TRUE, <<>>),
          PyObj("bytes", TRUE, <<"h", "t", "t", "p", ":", "/", "/", "h", "/", "f">>), PyObj("list", FALSE, <<>>)}

\* The values passed as destination: None, and relative and absolute paths,
\* plain and with a doubled separator, a "." component or a trailing
\* separator, and the empty text.
Destinations ==
    {PyObj("NoneType", FALSE, <<>>)}
    \cup {PyObj("str", d # <<>>, d) :
            d \in {<<"f">>, <<"d", "/", "f">>, <<"d", "/", "e", "/", "f">>, <<"d", "/", "/", "f">>, <<".", "/", "f">>, <<"d", "/">>, <<"/", "r", "/", "x", "/", "f">>,
                   <<"/", "w", "/", "d", "/", "f">>, <<>>}}

\* The file systems a call starts in: the working directory /w and a directory
\* /r that cannot be written to; then nothing else, or /w/d with a file f in it,
\* or a file /w/d.
FsInits ==
    LET base == [dirs |-> {<<>>, <<<<"w">>>>, <<<<"r">>>>}, files |-> <<>>,
                 readonly |-> {<<<<"r">>>>}]
        old  == <<[by |-> "old", block |-> 1]>>
    IN  {base,
         [base EXCEPT !.dirs = @ \cup {<<<<"w">>, <<"d">>>>},
                      !.files = (<<<<"w">>, <<"d">>, <<"f">>>> :> old)],
         [base EXCEPT !.files = (<<<<"w">>, <<"d">>>> :> old)]}

\* The threads that call in SpecDl: one.
Callers == {"t1"}

InitDl ==
    /\ \E url \in Urls, destination \in Destinations, verbose \in BOOLEAN :
          dl = [t \in Threads |->
                  IF t \in Callers
                  THEN [NoDownload EXCEPT !.pc = "start", !.url = url,
                                          !.destination = destination, !.verbose = verbose]
                  ELSE NoDownload]
    /\ fs \in FsInits /\ fs0 = fs
    /\ fmt_in = NoCall /\ fmt_out = NoCall
    /\ gpu_in = NoCall /\ gpu_out = NoCall
    /\ mem_in = NoCall /\ mem_out = NoCall
    /\ env_in = NoCall /\ env_out = NoCall
    /\ setup_in = NoCall /\ setup_out = NoCall

NextDl ==
    \E t \in Callers :
        \/ Call(t)
        \/ Mkdir(t)
        \/ FetchOpen(t)
        \/ FetchWrite(t)
        \/ Finish(t)

SpecDl == InitDl /\ [][NextDl]_vars

(***************************************************************************)
(* download_from_url: two concurrent calls                                 *)
(***************************************************************************)

\* The destinations of concurrent calls: None and "f" resolve to the same
\* file, "d/f" and "d/e/f" share the parent that may be missing, and "d" is
\* that parent.
DestinationsShared ==
    {PyObj("NoneType", FALSE, <<>>)}
    \cup {PyObj("str", TRUE, d) : d \in {<<"f">>, <<"d", "/", "f">>, <<"d", "/", "e", "/", "f">>, <<"d">>}}

\* Both threads call for the URL http://h/f, each with its destination and
\* print flag, in a file system where /w/d is missing or exists.
InitDl2 ==
    /\ \E destination \in [Threads -> DestinationsShared], verbose \in [Threads -> BOOLEAN] :
          dl = [t \in Threads |->
                  [NoDownload EXCEPT !.pc = "start", !.url = PyObj("str", TRUE, <<"h", "t", "t", "p", ":", "/", "/", "h", "/", "f">>),
                                     !.destination = destination[t], !.verbose = verbose[t]]]
    /\ fs \in {f \in FsInits : \A a \in DOMAIN f.files : Len(a) > 2} /\ fs0 = fs
    /\ fmt_in = NoCall /\ fmt_out = NoCall
    /\ gpu_in = NoCall /\ gpu_out = NoCall
    /\ mem_in = NoCall /\ mem_out = NoCall
    /\ env_in = NoCall /\ env_out = NoCall
    /\ setup_in = NoCall /\ setup_out = NoCall

\* The threads interleave at the system calls: every os.mkdir, the open of the
\* target and every block written is a step of its own.
NextDl2 ==
    \E t \in Threads :
        \/ Call(t)
        \/ MkdirStep(t)
        \/ FetchOpen(t)
        \/ FetchWrite(t)
        \/ Finish(t)

SpecDl2 == InitDl2 /\ [][NextDl2]_vars

(***************************************************************************)
(* setup_colab_environment                                                 *)
(***************************************************************************)

\* None
PyNone == PyObj("NoneType", FALSE, <<>>)

\* str(b) of a bool
StrOfBool(b) == IF b THEN <<"T", "r", "u", "e">> ELSE <<"F", "a", "l", "s", "e">>

\* str(o) of None or of a str
StrOfObj(o) == IF o.type = "NoneType" THEN <<"N", "o", "n", "e">> ELSE o.chars

\* c * n
Repeat(c, n) == [i \in 1..n |-> c]

\* sys.version of the interpreter
SysVersion ==
    <<"3", ".", "1", "0", ".", "1", "2", " ", "(", "m", "a", "i", "n", ",", " ", "N", "o", "v", " ", "2", "0", " ", "2", "0", "2", "3", ",", " ", "1", "5", ":", "1", "4", ":", "0", "5", ")", " ", "[",
  "G", "C", "C", " ", "1", "1", ".", "4", ".", "0", "]">>

\* The backend matplotlib starts with, and the one the inline magic selects.
BackendAgg ==
    <<"a", "g", "g">>

BackendInline ==
    <<"m", "o", "d", "u", "l", "e", ":", "/", "/", "m", "a", "t", "p", "l", "o", "t", "l", "i", "b", "_", "i", "n", "l", "i", "n", "e", ".", "b", "a", "c", "k", "e", "n", "d", "_", "i", "n", "l", "i",
  "n", "e">>

\* The outcome of a call of setup_colab_environment: the exception it raised
\* ("None": it returned val) and the lines it printed.
SetupOutcome(exc, val, printed) == [exc |-> exc, val |-> val, printed |-> printed]

\* The inner try block: the backend after it.  ipython says what it met: IPython
\* cannot be imported, get_ipython() returns None, the magic raises, or the
\* magic selects the inline backend; every failure is swallowed.
SetupInline(ipython, backend) == IF ipython = "Inline" THEN BackendInline ELSE backend

\* env_info['matplotlib_backend'] = None
SetupNoBackend(env_info) == Put(env_info, "matplotlib_backend", PyNone)

\* if matplotlib_inline: the try block around "import matplotlib.pyplot", which
\* raises mpl ("None": the import succeeds); only an ImportError is caught.
SetupBackend(env_info, verbose, mpl, ipython, backend) ==
    IF IsImportError(mpl)
    THEN SetupOutcome("None", SetupNoBackend(env_info),
                      IF verbose THEN <<Line("Warning: matplotlib not available", <<>>)>>
                      ELSE <<>>)
    ELSE IF mpl # "None" THEN SetupOutcome(mpl, env_info, <<>>)
    ELSE SetupOutcome("None",
                      Put(env_info, "matplotlib_backend",
                          PyObj("str", TRUE, IF env_info.is_colab
                                             THEN SetupInline(ipython, backend)
                                             ELSE backend)),
                      <<>>)

\* if verbose: the lines of the summary
SetupSummary(env_info, matplotlib_inline) ==
    <<Line("", Repeat("=", 50)),
      Line("Environment Setup Complete", <<>>),
      Line("", Repeat("=", 50)),
      Line("Running in Colab: ", StrOfBool(env_info.is_colab)),
      Line("Python Version: ", SplitWs(env_info.python_version)[1]),
      Line("Platform: ", env_info.platform),
      Line("Working Directory: ", env_info.working_directory)>>
    \o (IF matplotlib_inline
        THEN <<Line("Matplotlib Backend: ",
                    IF Has(env_info, "matplotlib_backend")
                    THEN StrOfObj(env_info.matplotlib_backend) ELSE <<"N", "/", "A">>)>>
        ELSE <<>>)
    \o <<Line("", Repeat("=", 50))>>

\* setup_colab_environment(verbose, matplotlib_inline) on a system sys: what
\* "import google.colab" does and os.environ (for is_colab), what Path.cwd()
\* does, sys.platform, what "import matplotlib.pyplot" does, what IPython does
\* and the backend matplotlib starts with.
setup_colab_environment(verbose, matplotlib_inline, sys) ==
    LET Built(c) ==
            IF c.exc # "None" THEN SetupOutcome(c.exc, <<>>, <<>>)
            ELSE IF sys.cwd_exc # "None" THEN SetupOutcome(sys.cwd_exc, <<>>, <<>>)
            ELSE LET Summed(b) ==
                         IF b.exc # "None" THEN SetupOutcome(b.exc, <<>>, b.printed)
                         ELSE SetupOutcome("None", b.val,
                                  b.printed \o (IF verbose
                                                THEN SetupSummary(b.val, matplotlib_inline)
                                                ELSE <<>>))
                     Base(v) == [is_colab          |-> v,
                                 python_version    |-> SysVersion,
                                 platform          |-> sys.platform,
                                 working_directory |-> StrOfPath(Cwd)]
                 IN  Summed(IF matplotlib_inline
                            THEN SetupBackend(Base(c.val), verbose, sys.mpl, sys.ipython,
                                              sys.backend)
                            ELSE SetupOutcome("None", Base(c.val), <<>>))
    IN  Built(is_colab(sys.import_exc, sys.environ))

\* The systems a call is drawn over: the import of google.colab and of
\* matplotlib.pyplot succeeds, finds no module, fails with an ImportError or
\* fails with another exception; the working directory exists or has been
\* removed; COLAB_GPU is set or not.
SetupSystems ==
    [import_exc : ImportOutcomes,
     environ    : {e \in Environs : DOMAIN e \subseteq {"COLAB_GPU"} /\ \A k \in DOMAIN e : e[k] = "0"},
     cwd_exc    : {"None", "FileNotFoundError"},
     platform   : {PlatformLinux},
     mpl        : {"None", "ModuleNotFoundError", "ImportError", "RuntimeError"},
     ipython    : {"ImportError", "NoShell", "UsageError", "Inline"},
     backend    : {BackendAgg}]

InitSetup ==
    /\ setup_in \in [verbose : BOOLEAN, matplotlib_inline : BOOLEAN, sys : SetupSystems]
    /\ setup_out = NoCall
    /\ fmt_in = NoCall /\ fmt_out = NoCall
    /\ gpu_in = NoCall /\ gpu_out = NoCall
    /\ mem_in = NoCall /\ mem_out = NoCall
    /\ env_in = NoCall /\ env_out = NoCall
    /\ dl = NoDownloads /\ fs = FsEmpty /\ fs0 = FsEmpty

\* One call setup_colab_environment(verbose, matplotlib_inline).
SetupColabEnvironment ==
    /\ setup_out = NoCall
    /\ setup_out' = setup_colab_environment(setup_in.verbose, setup_in.matplotlib_inline,
                                            setup_in.sys)
    /\ UNCHANGED <<setup_in, fmt_in, fmt_out, gpu_in, gpu_out, mem_in, mem_out, env_in,
                   env_out, dl, fs, fs0>>

NextSetup == SetupColabEnvironment

SpecSetup == InitSetup /\ [][NextSetup]_vars

(***************************************************************************)
(* Claims about get_gpu_info                                               *)
(***************************************************************************)

\* The stripped comma-separated fields of a line.
FieldsOf(line) ==
    LET raw == SplitOn(line, ",") IN [i \in 1..Len(raw) |-> Strip(raw[i])]

\* A line whose conversion raises: not blank, at least six fields, and an index
\* or a memory field that is no number.
GpuBadLine(line) ==
    /\ Strip(line) # <<>>
    /\ Len(FieldsOf(line)) >= 6
    /\ \/ PyIntOfStr(FieldsOf(line)[1]).exc # "None"
       \/ \E i \in 3..5 : PyIntOfFloatStr(FieldsOf(line)[i]).exc # "None"

\* The call took a failure path: the tool is absent, timed out or failed
\* otherwise, exited non-zero, or some line of its output raises.
GpuFailurePath ==
    \/ gpu_in.raises # "None"
    \/ gpu_in.returncode # 0
    \/ LET lines == SplitOn(Strip(gpu_in.stdout), "\n")
       IN  \E i \in 1..Len(lines) : GpuBadLine(lines[i])

\* C1: get_gpu_info always returns a record, and on every failure path the
\* record has an error field, available = false, count = 0 and no devices.
C1_GpuFailureIsSentinel ==
    gpu_out # NoCall =>
        /\ {"available", "count", "devices"} \subseteq DOMAIN gpu_out
        /\ GpuFailurePath => Has(gpu_out, "error")
        /\ Has(gpu_out, "error") =>
              /\ gpu_out.available = FALSE
              /\ gpu_out.count = 0
              /\ gpu_out.devices = <<>>

\* A line raised after a device had been parsed: the failure is reported.
C1_Witness ==
    /\ gpu_out # NoCall
    /\ gpu_in.raises = "None" /\ gpu_in.returncode = 0
    /\ gpu_in.stdout = GpuLineT4 \o <<"\n">> \o GpuLineNA \o <<"\n">>
    /\ Has(gpu_out, "error")
    /\ Has(gpu_out, "driver_version")

\* A line the loop accepts: not blank, at least six stripped fields.
GpuAcceptedLine(line) == Strip(line) # <<>> /\ Len(FieldsOf(line)) >= 6

\* The lines of the tool's output, as the loop sees them.
GpuOutputLines == SplitOn(Strip(gpu_in.stdout), "\n")

\* The record the accepted lines acc stand for: one device per line in order,
\* counted, available when there is one, the driver version of the first.
GpuRecordOf(acc) ==
    /\ gpu_out.devices = [i \in 1..Len(acc) |-> Device(FieldsOf(acc[i]))]
    /\ \A i \in 1..Len(gpu_out.devices) :
          {gpu_out.devices[i].index, gpu_out.devices[i].memory_total,
           gpu_out.devices[i].memory_used, gpu_out.devices[i].memory_free} \subseteq Int
    /\ gpu_out.count = Len(acc)
    /\ gpu_out.available = (Len(acc) >= 1)
    /\ Len(acc) >= 1 =>
          Has(gpu_out, "driver_version") /\ gpu_out.driver_version = FieldsOf(acc[1])[6]

\* C11 as stated: when the tool exits with status 0, the devices are one
\* record per accepted line in output order, count is the number of accepted
\* lines, available holds iff there is one, and driver_version is the sixth
\* field of the first accepted line.
C11_AcceptedLinesBecomeDevices ==
    (gpu_out # NoCall /\ gpu_in.raises = "None" /\ gpu_in.returncode = 0) =>
        GpuRecordOf(SelectSeq(GpuOutputLines, GpuAcceptedLine))

\* C11, with the case the statement leaves out: when the tool exits with
\* status 0 and the numeric fields of every accepted line convert, the record
\* is the one the accepted lines stand for; when some accepted line does not
\* convert, the record is the error record without devices.
C11_AcceptedLinesThatConvert ==
    (gpu_out # NoCall /\ gpu_in.raises = "None" /\ gpu_in.returncode = 0) =>
        IF \E i \in 1..Len(GpuOutputLines) : GpuBadLine(GpuOutputLines[i])
        THEN /\ Has(gpu_out, "error")
             /\ gpu_out.devices = <<>> /\ gpu_out.count = 0 /\ gpu_out.available = FALSE
        ELSE /\ ~Has(gpu_out, "error")
             /\ GpuRecordOf(SelectSeq(GpuOutputLines, GpuAcceptedLine))

\* Two accepted lines with different driver versions: two devices in order,
\* the first line's driver version, and the values of the documented example.
C11_Witness ==
    /\ gpu_out # NoCall
    /\ gpu_in.raises = "None" /\ gpu_in.returncode = 0
    /\ gpu_in.stdout = GpuLineT4 \o <<"\n">> \o GpuLineA100 \o <<"\n">>
    /\ gpu_out.available = TRUE /\ gpu_out.count = 2
    /\ gpu_out.devices[1].name = <<"T", "e", "s", "l", "a", " ", "T", "4">>
    /\ gpu_out.devices[1].memory_total = 15109
    /\ gpu_out.devices[2].index = 1
    /\ gpu_out.driver_version = <<"5", "2", "5", ".", "8", "5", ".", "1", "2">>

\* C16: every record get_gpu_info returns is consistent: count is the length of
\* the device list, available holds iff the list is not empty, an error is
\* present only when available is false, and driver_version is present iff
\* available is true.
C16_GpuRecordConsistent ==
    gpu_out # NoCall =>
        /\ gpu_out.count = Len(gpu_out.devices)
        /\ gpu_out.available <=> (gpu_out.devices # <<>>)
        /\ Has(gpu_out, "error") => ~gpu_out.available
        /\ Has(gpu_out, "driver_version") <=> gpu_out.available

(***************************************************************************)
(* Claims about get_memory_info                                            *)
(***************************************************************************)

MemKeys ==
    {"platform", "total_bytes", "available_bytes", "used_bytes", "percent_used",
     "total_formatted", "available_formatted", "used_formatted"}

\* The call took a failure path: another platform, or the try block raised
\* (the file missing, or any failure of reading, parsing or formatting).
MemFailurePath ==
    \/ ~StartsWith(mem_in.platform, PrefixLinux)
    \/ MemTry(mem_in.platform, mem_in.file).exc # "None"

\* The record is the sentinel: zero numbers and "N/A" strings.
MemIsSentinel ==
    /\ mem_out.total_bytes = 0
    /\ mem_out.available_bytes = 0
    /\ mem_out.used_bytes = 0
    /\ mem_out.percent_used.num = 0
    /\ mem_out.total_formatted = NotAvailable
    /\ mem_out.available_formatted = NotAvailable
    /\ mem_out.used_formatted = NotAvailable

\* C2: get_memory_info always returns a record with the eight fields, and on
\* every failure path the record has an error field, zero numbers and "N/A"
\* strings, nothing computed before the failure being left in it.
C2_MemUniformShape ==
    mem_out # NoCall =>
        /\ MemKeys \subseteq DOMAIN mem_out
        /\ MemFailurePath => Has(mem_out, "error")
        /\ Has(mem_out, "error") => MemIsSentinel

\* Formatting raised after the numbers had been assigned (available exceeds
\* total, so used is negative): the record returned is the sentinel.
C2_Witness ==
    /\ mem_out # NoCall
    /\ mem_in.platform = PlatformLinux /\ mem_in.file.state = "ok"
    /\ mem_in.file.lines = <<MemEntry(KeyMemTotal, <<"1">>), MemEntry(KeyMemAvailable, <<"3">>)>>
    /\ Has(mem_out, "error")
    /\ mem_out.error.cause = "ValueError"

\* The status file was read and every line of it is well formed.
MemWellFormedRead ==
    /\ mem_out # NoCall
    /\ StartsWith(mem_in.platform, PrefixLinux)
    /\ mem_in.file.state = "ok"
    /\ \A i \in 1..Len(mem_in.file.lines) : mem_in.file.lines[i] \in WellFormedMemLines

\* C10: when the status file is read with well-formed content, the record has
\* used_bytes = total_bytes - available_bytes and 0 <= percent_used <= 100.
C10_MemUsedAndPercent ==
    MemWellFormedRead =>
        /\ mem_out.used_bytes = mem_out.total_bytes - mem_out.available_bytes
        /\ mem_out.percent_used.den > 0
        /\ 0 <= mem_out.percent_used.num
        /\ mem_out.percent_used.num <= 100 * mem_out.percent_used.den

\* A well-formed file with memory in use: the numbers are reported.
C10_Witness ==
    /\ MemWellFormedRead
    /\ ~Has(mem_out, "error")
    /\ mem_out.total_bytes = 3 * 1024
    /\ mem_out.used_bytes = 2 * 1024
    /\ mem_out.percent_used.num > 0

\* The lines of the status file that carry the entry key.
MemEntriesOf(key) ==
    {i \in 1..Len(mem_in.file.lines) : StartsWith(mem_in.file.lines[i], key \o <<":">>)}

\* The bytes the status file gives for the entry key (its last line counts),
\* in a file of well-formed lines; absent when no line carries it.
MemBytesOf(key, absent) ==
    IF MemEntriesOf(key) = {} THEN absent
    ELSE LET last == CHOOSE i \in MemEntriesOf(key) : \A j \in MemEntriesOf(key) : j <= i
         IN  1024 * (CHOOSE v \in KBValues : mem_in.file.lines[last] = MemEntry(key, StrOfNat(v)))

\* Total and available as the status file gives them.
MemTotalRead == MemBytesOf(KeyMemTotal, 0)

MemAvailableRead == MemBytesOf(KeyMemAvailable, MemBytesOf(KeyMemFree, 0))

\* C14: when the status file reports an available value larger than the
\* total, the record carries used_bytes = total_bytes - available_bytes as a
\* negative number, with total_bytes and available_bytes as read, and is no
\* error record.
C14_NegativeUsedReported ==
    (MemWellFormedRead /\ MemAvailableRead > MemTotalRead) =>
        /\ mem_out.total_bytes = MemTotalRead
        /\ mem_out.available_bytes = MemAvailableRead
        /\ mem_out.used_bytes = MemTotalRead - MemAvailableRead
        /\ mem_out.used_bytes < 0
        /\ ~Has(mem_out, "error")

\* C15: for every status file read, total_bytes is 1024 times MemTotal (0 if
\* absent), available_bytes is 1024 times MemAvailable, else MemFree, else 0,
\* and percent_used is used/total x 100 when total > 0 and 0 otherwise, also
\* when MemTotal is absent while MemAvailable or MemFree is present.  (The
\* quotients are compared cross-multiplied, in units of 1024 bytes.)
C15_MemFieldsFromFile ==
    MemWellFormedRead =>
        /\ mem_out.total_bytes = MemTotalRead
        /\ mem_out.available_bytes = MemAvailableRead
        /\ IF MemTotalRead > 0
           THEN (mem_out.percent_used.num \div 1024) * (MemTotalRead \div 1024) =
                   ((MemTotalRead - MemAvailableRead) \div 1024) * 100
                   * (mem_out.percent_used.den \div 1024)
           ELSE mem_out.percent_used.num = 0

(***************************************************************************)
(* Claims about download_from_url                                          *)
(***************************************************************************)

\* The URL shapes that are to be rejected: not a str, empty, or not beginning
\* with "http://" or "https://".
UrlRejected(url) ==
    \/ url.type # "str"
    \/ url.chars = <<>>
    \/ ~\E n \in 1..Len(url.chars) :
            SubSeq(url.chars, 1, n) \in {<<"h", "t", "t", "p", ":", "/", "/">>,
                                         <<"h", "t", "t", "p", "s", ":", "/", "/">>}

\* C5: a call fails with ValueError exactly when its URL is empty, is not a
\* str, or does not begin with "http://" or "https://"; it then stops at the
\* validation, and every other URL passes on to the resolution of the
\* destination.
C5_ValidationExact ==
    \A t \in Callers :
        dl[t].pc \notin {"idle", "start"} =>
            /\ UrlRejected(dl[t].url) <=> dl[t].exc.cls = "ValueError"
            /\ UrlRejected(dl[t].url) => dl[t].pc = "raised" /\ dl[t].events = <<"validate">>
            /\ ~UrlRejected(dl[t].url) => SubSeq(dl[t].events, 1, 2) = <<"validate", "resolve">>

\* A text URL that has a scheme-like start is rejected, and one with each
\* accepted scheme has passed.
C5_Witness ==
    \E t \in Callers :
        /\ dl[t].pc = "raised"
        /\ dl[t].exc.cls = "ValueError"
        /\ dl[t].url.type = "str"
        /\ Len(dl[t].url.chars) > 6
        /\ SubSeq(dl[t].url.chars, 1, 6) = <<"h", "t", "t", "p", ":", "/">>

\* The file name C6 describes: the query string is stripped, and the last
\* segment of what is left is the name; the fallback name when it is empty.
ClaimedFileName(u) ==
    LET segments == SplitOn(SplitOn(u, "?")[1], "/")
        last     == segments[Len(segments)]
    IN  IF last = <<>> THEN <<"d", "o", "w", "n", "l", "o", "a", "d", "e", "d", "_", "f", "i", "l", "e">> ELSE last

\* C6: with no destination, the resolved path of a valid URL is the URL's last
\* path segment with the query string stripped (also when the query string
\* contains "/"), or "downloaded_file" when that is empty, inside the current
\* working directory.
C6_FileNameFromUrl ==
    \A t \in Callers :
        (dl[t].destination.type = "NoneType" /\ dl[t].pc \in {"mkdir", "fetch", "write", "done"}) =>
            dl[t].destination_path =
                Path(Cwd.root, Append(Cwd.parts, ClaimedFileName(dl[t].url.chars)))

\* The directories above the absolute path a all exist.
ParentsExist(a) == \A k \in 0..(Len(a) - 1) : SubSeq(a, 1, k) \in fs.dirs

\* C7, as the code has it: with an explicit destination the path is
\* Path(destination), whose text is the destination with doubled and trailing
\* separators and "." components removed.  Its parent directories all exist
\* when the fetch starts, the fetch is handed str of that path, and when the
\* fetch succeeds the file at that path holds the response and that path is
\* returned.
C7_ExplicitDestination ==
    \A t \in Callers :
        dl[t].destination.type = "str" =>
            LET p == ParsePath(dl[t].destination.chars) IN
            /\ dl[t].pc \in {"fetch", "write", "done"} => ParentsExist(Abs(p))
            /\ dl[t].fetches > 0 => dl[t].target = StrOfPath(p)
            /\ dl[t].pc = "done" =>
                /\ dl[t].ret = p
                /\ Abs(p) \in DOMAIN fs.files
                /\ fs.files[Abs(p)] = [i \in 1..dl[t].resp |-> [by |-> t, block |-> i]]

\* A call with a destination whose text is not what it returns has fetched a
\* response of at least one block.
C7_Witness ==
    \E t \in Callers :
        /\ dl[t].pc = "done"
        /\ dl[t].destination.type = "str"
        /\ StrOfPath(dl[t].ret) # dl[t].destination.chars
        /\ dl[t].resp > 0
        /\ Len(dl[t].ret.parts) > 1

\* C7 as stated: the fetch writes to exactly the destination given and the
\* returned path equals it exactly.
C7_DestinationVerbatim ==
    \A t \in Callers :
        (dl[t].destination.type = "str" /\ dl[t].pc = "done") =>
            /\ dl[t].target = dl[t].destination.chars
            /\ StrOfPath(dl[t].ret) = dl[t].destination.chars

\* C8: a failure reaches the caller as its own kind of error: an HTTP failure
\* as an HTTPError with the status code and reason, a network failure as a
\* URLError with the original cause, a file system failure (creating the
\* directories or writing the file) as an I/O error that names the destination
\* path; and no call fetches twice.
C8_ErrorKinds ==
    \A t \in Callers :
        /\ dl[t].fetches <= 1
        /\ dl[t].origin # "None" => dl[t].pc = "raised"
        /\ dl[t].origin = "http" =>
              /\ dl[t].exc.cls = "HTTPError"
              /\ dl[t].exc.code = dl[t].fault.code
              /\ dl[t].exc.cause = dl[t].fault.cause
        /\ dl[t].origin = "network" =>
              /\ dl[t].exc.cls = "URLError"
              /\ dl[t].exc.cause = dl[t].fault.cause
        /\ dl[t].origin = "filesystem" =>
              /\ dl[t].exc.cls \in OsErrors \ UrlErrors
              /\ dl[t].exc.arg = StrOfPath(dl[t].destination_path)

\* a is a prefix of b
IsPrefix(a, b) == Len(a) <= Len(b) /\ SubSeq(b, 1, Len(a)) = a

\* The file thread t is asked to write.
DlGoal(t) == Abs(DestinationPath(dl[t].url, dl[t].destination))

\* The two calls name different files, neither inside the other.
DlUnrelated == ~IsPrefix(DlGoal("t1"), DlGoal("t2")) /\ ~IsPrefix(DlGoal("t2"), DlGoal("t1"))

\* Thread t has finished as it would have running alone in the file system it
\* started in, given what the network did to it: the same failure of the
\* directory creation or of the open, or else its own failure of the
\* connection, or the file holding exactly the blocks it wrote, and when it
\* returned, its path and the size of its response in the completion line.
DlAsAlone(t) ==
    LET Same(c, dp) ==
            LET Opened(m) ==
                    LET Written(o) ==
                            \/ c.pc = "raised" /\ c.fault \in {f.exc : f \in ConnectFaults}
                            \/ /\ o.exc # NoExc
                               /\ c.pc = "raised" /\ c.exc = Reraise(o.exc, c.url, dp)
                            \/ /\ o.exc = NoExc
                               /\ c.pc = "done" \/ c.fault \in {f.exc : f \in TransferFaults}
                               /\ Abs(dp) \in DOMAIN fs.files
                               /\ fs.files[Abs(dp)] = [i \in 1..c.written |-> [by |-> t, block |-> i]]
                               /\ c.pc = "done" =>
                                     /\ c.ret = dp /\ c.written = c.resp
                                     /\ c.verbose =>
                                           c.printed[Len(c.printed)].arg = Thousands(c.resp * 8192)
                    IN  IF m.exc # NoExc THEN c.exc = m.exc /\ c.fetches = 0
                        ELSE c.fetches = 1 /\ Written(OpenWrite(m.fs, ParsePath(StrOfPath(dp))))
            IN  Opened(MkdirParents(fs0, Parent(dp)))
    IN  dl[t].pc \in {"done", "raised"} =>
            Same(dl[t], DestinationPath(dl[t].url, dl[t].destination))

\* C13 as stated: under every interleaving of two download_from_url calls,
\* also when they resolve to the same destination path or the same missing
\* parent directories, each call returns the result and leaves the file it
\* would have produced running alone.
C13_ConcurrentCallsIndependent == \A t \in Threads : DlAsAlone(t)

\* C13, for the calls that do not share a file: when the two destination paths
\* differ and neither lies inside the other, each call returns the result and
\* leaves the file it would have produced running alone, also when both create
\* the same missing parent directories.
C13_UnrelatedCallsIndependent == DlUnrelated => \A t \in Threads : DlAsAlone(t)

\* Two overlapping calls below the same missing directory: one has returned
\* while the other is still writing.
C13_Witness ==
    /\ <<<<"w">>, <<"d">>>> \notin fs0.dirs
    /\ dl["t1"].destination.chars = <<"d", "/", "f">> /\ dl["t2"].destination.chars = <<"d", "/", "e", "/", "f">>
    /\ dl["t1"].pc = "done" /\ dl["t1"].written = 2
    /\ dl["t2"].pc = "write" /\ dl["t2"].written = 1 /\ dl["t2"].resp = 2
    /\ DlUnrelated

\* The steps of a run in the order C17 gives them.
DlSteps(verbose) ==
    <<"validate", "resolve", "mkdir">>
    \o (IF verbose THEN <<"print_pre">> ELSE <<>>)
    \o <<"fetch">>
    \o (IF verbose THEN <<"print_post">> ELSE <<>>)
    \o <<"return">>

\* The fixed texts of the lines printed so far.
DlPrintedTexts(c) == [i \in 1..Len(c.printed) |-> c.printed[i].text]

\* step has happened in the run c
DlDid(c, step) == \E i \in 1..Len(c.events) : c.events[i] = step

\* C17: in every run the steps happen in the order validate, resolve, create
\* parents, pre-download message (if print-flag), one fetch, post-download
\* message (if print-flag), return, and a step that fails stops the later ones:
\* an invalid URL causes no directory creation, no fetch and no output, a
\* failed fetch prints no completion message and returns no path, and nothing
\* is printed when the print-flag is unset.
C17_StepsInOrder ==
    \A t \in Callers :
        LET c == dl[t] IN
        /\ IsPrefix(c.events, DlSteps(c.verbose))
        /\ c.pc = "raised" => c.events # DlSteps(c.verbose)
        /\ c.fetches = (IF DlDid(c, "fetch") THEN 1 ELSE 0)
        /\ ~DlDid(c, "mkdir") => fs.dirs = fs0.dirs
        /\ ~DlDid(c, "fetch") => fs.files = fs0.files
        /\ DlPrintedTexts(c) =
              (IF DlDid(c, "print_pre") THEN <<"Downloading from: ", "Saving to: ">> ELSE <<>>)
              \o (IF DlDid(c, "print_post") THEN <<"Download complete! File size: {:,} bytes">>
                  ELSE <<>>)
        /\ ~c.verbose => c.printed = <<>>
        /\ (c.ret # NoCall) <=> DlDid(c, "return")
        /\ (c.pc = "done") <=> DlDid(c, "return")
        /\ (c.pc \in {"done", "raised"} /\ UrlRejected(c.url)) =>
              /\ c.events = <<"validate">> /\ c.pc = "raised"
              /\ fs = fs0 /\ c.fetches = 0 /\ c.printed = <<>>
        /\ (c.fetches = 1 /\ c.fault # NoExc) =>
              /\ c.pc = "raised" /\ c.ret = NoCall
              /\ ~DlDid(c, "print_post") /\ ~DlDid(c, "return")

\* A run with the print-flag set that went through every step, and printed
\* its three lines.
C17_Witness ==
    \E t \in Callers :
        /\ dl[t].pc = "done" /\ dl[t].verbose
        /\ dl[t].events = <<"validate", "resolve", "mkdir", "print_pre", "fetch",
                            "print_post", "return">>
        /\ Len(dl[t].printed) = 3
        /\ fs.dirs # fs0.dirs

(***************************************************************************)
(* Claims about is_colab                                                   *)
(***************************************************************************)

\* C9: is_colab never raises and returns true iff the marker module can be
\* imported or COLAB_GPU or COLAB_TPU_ADDR is set (with any value), however
\* the import fails.
C9_DetectorTotal ==
    env_out # NoCall =>
        /\ env_out.exc = "None"
        /\ env_out.val = (\/ env_in.import_exc = "None"
                          \/ "COLAB_GPU" \in DOMAIN env_in.environ
                          \/ "COLAB_TPU_ADDR" \in DOMAIN env_in.environ)

(***************************************************************************)
(* Claims about setup_colab_environment                                    *)
(***************************************************************************)

\* The call was made with configure-plotting set on a system without the
\* plotting library.
SetupLibraryMissing ==
    /\ setup_out # NoCall
    /\ setup_in.matplotlib_inline
    /\ setup_in.sys.mpl \in {"ModuleNotFoundError", "ImportError"}

\* The warning is among the lines printed.
SetupWarned ==
    \E i \in 1..Len(setup_out.printed) :
        setup_out.printed[i].text = "Warning: matplotlib not available"

\* C12: setup_colab_environment never raises when the plotting library is
\* missing: with configure-plotting set and the library absent it returns the
\* four base fields and a null matplotlib_backend and prints the warning iff
\* print-summary is set; a returned record has matplotlib_backend iff
\* configure-plotting was set.
C12_MissingPlottingNeverRaises ==
    /\ SetupLibraryMissing =>
          /\ setup_out.exc = "None"
          /\ DOMAIN setup_out.val =
                {"is_colab", "python_version", "platform", "working_directory",
                 "matplotlib_backend"}
          /\ setup_out.val.matplotlib_backend = PyNone
          /\ SetupWarned <=> setup_in.verbose
    /\ (setup_out # NoCall /\ setup_out.exc = "None") =>
          (Has(setup_out.val, "matplotlib_backend") <=> setup_in.matplotlib_inline)

(***************************************************************************)
(* Claims about format_file_size                                           *)
(***************************************************************************)

\* The call has been made on a number that is at least 1024.
FmtAtLeastKilo ==
    /\ fmt_out # NoCall
    /\ IsNumber(fmt_in) /\ ~fmt_in.neg
    /\ \/ fmt_in.cls \in {"inf", "huge"}
       \/ fmt_in.cls = "fin" /\ Len(fmt_in.ip) >= 2

\* The call has been made on a number strictly between 0 and 1024.
FmtBelowKilo ==
    /\ fmt_out # NoCall
    /\ IsNumber(fmt_in) /\ ~fmt_in.neg /\ ~IsZero(fmt_in)
    /\ fmt_in.cls = "fin" /\ Len(fmt_in.ip) <= 1

\* The unit index the claim names: min(5, largest j with 1024^j <= size).
ClaimedUnitIndex(v) == IF Len(v.ip) - 1 < 5 THEN Len(v.ip) - 1 ELSE 5

\* size / 1024^k of the exact value of v, with two decimals, a space and unit k.
ClaimedText(v) ==
    LET k == ClaimedUnitIndex(v)
        n == Len(v.ip)
        scaled == Value("float", "fin", FALSE, SubSeq(v.ip, 1, n - k),
                        SubSeq(v.ip, n - k + 1, n) \o v.fp)
    IN  FormatF2(scaled) \o <<" ">> \o units[k + 1]

EndsWith(s, p) == Len(s) >= Len(p) /\ SubSeq(s, Len(s) - Len(p) + 1, Len(s)) = p

\* C3: every numeric size >= 1024 is returned as size / 1024^k with two
\* decimals and unit k = min(5, largest j with 1024^j <= size), sizes of
\* 1024^6 and more in PB; every size with 0 < size < 1024 as its truncated
\* integer followed by " B".
C3_BinaryScalingBoundedUnit ==
    /\ FmtAtLeastKilo =>
          /\ fmt_out.exc = "None"
          /\ IF fmt_in.cls = "fin" THEN fmt_out.val = ClaimedText(fmt_in)
             ELSE EndsWith(fmt_out.val, <<" ">> \o UnitPB)
    /\ FmtBelowKilo =>
          fmt_out = Returned(StrOfNat(NatOf(fmt_in.ip)) \o <<" ">> \o UnitB)

\* C4: a non-numeric input fails with a type error, a negative number with a
\* value error, 0 returns "0 B", and no other input produces an error.
C4_OnlyBadInputRaises ==
    fmt_out # NoCall =>
        /\ ~IsNumber(fmt_in) => fmt_out.exc = "TypeError"
        /\ IsNumber(fmt_in) /\ LtZero(fmt_in) => fmt_out.exc = "ValueError"
        /\ IsNumber(fmt_in) /\ IsZero(fmt_in) => fmt_out = Returned(<<"0", " ", "B">>)
        /\ IsNumber(fmt_in) /\ ~LtZero(fmt_in) => fmt_out.exc = "None"

====
